---- MODULE Spec2Model ----
(***************************************************************************)
(* Model of backend/test/container/e2e-provisioning-test.py: the           *)
(* provisioning-verification driver.  One run of main() authenticates      *)
(* (password login, then TOTP MFA), creates a tenant, polls its status     *)
(* until active/failed or until the iteration budget is used up, verifies  *)
(* the container (docker ps cross-check and HTTP probe), optionally        *)
(* verifies the health monitor, and exits.                                 *)
(*                                                                         *)
(* The backend, the container endpoint and the docker CLI are the          *)
(* environment: every answer they can give is a nondeterministic input of  *)
(* the action that consumes it.                                            *)
(*                                                                         *)
(* Specifications:                                                         *)
(*   Spec      a run of main() (poll_provisioning called with its default  *)
(*             timeout_secs = 240);                                        *)
(*   SpecPoll  poll_provisioning called directly with any timeout_secs in  *)
(*             0..MaxTimeout against a scripted sequence of responses;     *)
(*   FairSpec  Spec with every enabled step eventually taken;              *)
(*   SpecTotp  generate_totp called directly, for several secrets and      *)
(*             periods, while the wall clock ticks.                        *)
(***************************************************************************)
EXTENDS Integers, Sequences, FiniteSets, TLC

VARIABLES
    pc,               \* position of the program
    caller,           \* "main": poll_provisioning runs inside main(); "direct": called on its own
    script,           \* SpecPoll: the scripted status responses (<<>> under Spec)
    skip_health_wait, \* args.skip_health_wait
    timeout_secs,     \* poll_provisioning's parameter
    token,            \* main's token
    tenant_id,        \* main's tenant_id
    i,                \* poll_provisioning: iterations of the for loop entered so far
    t,                \* poll_provisioning's local t
    tenant,           \* main's tenant (poll_provisioning's return value)
    container_ok,     \* main's container_ok
    health,           \* verify_health_monitor's local t (the re-fetched record)
    health_ok,        \* main's health_ok
    report,           \* the poller's closing line: SUCCEEDED / FAILED / TIMEOUT
    verdict,          \* main's closing line
    exitCode,         \* the process's exit code (NoExit while running)
    exc,              \* the exception that left the function that raised it ("none" if none)
    exc_code,         \* its code attribute when it is an HTTPError (0 otherwise)
    log,              \* what the run did to the outside: sleeps, requests, docker ps, probe
    now,              \* int(time.time()): the wall clock in whole seconds
    secret_b32,       \* generate_totp's parameter
    period,           \* generate_totp's parameter
    codes             \* the codes generate_totp returned so far, each with its time

vars == <<pc, caller, script, skip_health_wait, timeout_secs, token, tenant_id, i, t,
          tenant, container_ok, health, health_ok, report, verdict, exitCode, exc, exc_code, log,
          now, secret_b32, period, codes>>

----------------------------------------------------------------------------
(* Bounds of the model.                                                    *)

\* SpecPoll: timeout_secs ranges over 0..MaxTimeout.
MaxTimeout == 35

\* SpecTotp: the clock ticks at most MaxTicks seconds past a start time, and at most
\* MaxCodes codes are generated.
MaxTicks == 2
MaxCodes == 2

----------------------------------------------------------------------------
(* Program constants.                                                      *)

DefaultTimeoutSecs == 240
Interval == 10
HealthWait == 35
DefaultPeriod == 30
MFA_SECRET_B32 == "JBSWY3DPEHPK3PXP"

----------------------------------------------------------------------------
(* Python values.                                                          *)

\* A local that no assignment has bound yet.
Unbound == [unbound |-> TRUE]
\* JSON null / Python None, where a string is expected.
Null == "<null>"
\* The process has not exited.
NoExit == 0 - 1

\* dict.get(key, default): a JSON object is a function from its keys.
Get(d, key, default) == IF key \in DOMAIN d THEN d[key] ELSE default

\* JSON values of a field that may hold an object or something else.
JObject(fields) == [type |-> "object", fields |-> fields]
JNull == [type |-> "null"]
JString(s) == [type |-> "string", value |-> s]
IsDict(v) == v.type = "object"

\* Python truthiness of a str-or-None.
Truthy(s) == s # "" /\ s # Null

----------------------------------------------------------------------------
(* Outcomes of one HTTP exchange, as urllib.request.urlopen produces them: *)
(* a 2xx response whose body parses, a non-2xx response (HTTPError with    *)
(* the code), or a network-level failure (URLError, socket.timeout).       *)

Ok(body) == [kind |-> "ok", body |-> body]
HttpFail(code) == [kind |-> "http", code |-> code]
TransportFail == [kind |-> "transport"]

Failures == {HttpFail(401), HttpFail(500), TransportFail}

\* Variant: api_call's method parameter defaults to POST.
DefaultMethodPost == "POST"

\* Line 49: api_call's method parameter defaults to GET.
DefaultMethod == "GET"

\* The exception class a failed exchange raises out of api_call.
ExceptionOf(resp) == IF resp.kind = "http" THEN "HTTPError" ELSE "URLError"

\* api_call's headers: Authorization only for a truthy token.
Headers(tok) == IF Truthy(tok) THEN [ContentType |-> "application/json", Authorization |-> tok]
                ELSE [ContentType |-> "application/json"]

\* api_call: one request, logged with the function that made the call, the headers it
\* carries and how it ended.
ApiRequest(by, method, path, tok, resp) ==
    [op |-> "request", by |-> by, method |-> method, path |-> path, headers |-> Headers(tok),
     outcome |-> resp.kind]

\* Variant: a failed exchange is tried once more before the error is raised.
ApiCallRetrying(by, method, path, tok, resp) ==
    [sent |-> IF resp.kind = "ok"
              THEN <<ApiRequest(by, method, path, tok, resp)>>
              ELSE <<ApiRequest(by, method, path, tok, resp),
                     ApiRequest(by, method, path, tok, resp)>>,
     raised |-> IF resp.kind = "ok" THEN "none" ELSE ExceptionOf(resp),
     code |-> IF resp.kind = "http" THEN resp.code ELSE 0,
     value |-> IF resp.kind = "ok" THEN resp.body ELSE Unbound]

\* Lines 49-64, api_call: the one request it sends, the exception that leaves it ("none"
\* on a 2xx response; the HTTPError is re-raised with its code, a URLError is not caught at
\* all) and the parsed body it returns.
ApiCall(by, method, path, tok, resp) ==
    [sent |-> <<ApiRequest(by, method, path, tok, resp)>>,
     raised |-> IF resp.kind = "ok" THEN "none" ELSE ExceptionOf(resp),
     code |-> IF resp.kind = "http" THEN resp.code ELSE 0,
     value |-> IF resp.kind = "ok" THEN resp.body ELSE Unbound]

Sleep(secs) == [op |-> "sleep", secs |-> secs]

----------------------------------------------------------------------------
(* The environment's answers.                                              *)

Tokens == {"", "tokA", "tokB"}
\* POST /api/auth/mfa/verify: {accessToken}, possibly without or with a null token.
MfaBodies == {[accessToken |-> a] : a \in Tokens \cup {Null}} \cup {[message |-> "ok"]}

TenantIds == {"0a1b2c3d-e4f5"}
\* POST /api/admin/tenants: {id, status}, possibly without id.
CreateBodies == {[id |-> x, status |-> "provisioning"] : x \in TenantIds}
                    \cup {[status |-> "provisioning"]}

Endpoint == "http://localhost:18789"
\* config of an active tenant: absent, without endpoint, with an empty or a real endpoint.
ActiveRecords ==
    {[id |-> x, status |-> "active"] : x \in TenantIds}
      \cup {[id |-> x, status |-> "active", config |-> c] :
                x \in TenantIds,
                c \in {[containerEndpoint |-> ""], [containerEndpoint |-> Endpoint],
                       [gatewayPort |-> "18789"]}}
      \cup {[status |-> "active", config |-> [containerEndpoint |-> Endpoint]]}
FailedRecords ==
    {[id |-> x, status |-> "failed", provisioningFailedReason |-> "image pull failed"] :
        x \in TenantIds}
      \cup {[id |-> x, status |-> "failed"] : x \in TenantIds}
      \cup {[id |-> x, status |-> "failed", config |-> [containerEndpoint |-> Endpoint]] :
                x \in TenantIds}
\* Non-terminal: provisioning (with progress), an unknown status, no status at all.
PendingRecords ==
    {[id |-> x, status |-> "provisioning", provisioningStep |-> "container",
      provisioningProgress |-> p] : x \in TenantIds, p \in {"10", "90"}}
      \cup {[id |-> x, status |-> "suspended"] : x \in TenantIds}
      \cup {[id |-> x] : x \in TenantIds}
TenantRecords == ActiveRecords \cup FailedRecords \cup PendingRecords

\* containerHealth of the re-fetched record.
HealthValues == {JObject([status |-> s]) : s \in {"healthy", "unhealthy", "unknown"}}
                    \cup {JObject([lastCheck |-> "12:00"]), JNull, JString("healthy")}
HealthRecords ==
    {[id |-> x, status |-> "active", containerHealth |-> h] : x \in TenantIds, h \in HealthValues}
      \cup {[id |-> x, status |-> "active"] : x \in TenantIds}

\* docker ps: a line with the id prefix, no such line, or the command fails / times out.
DockerOutcomes == {"found", "notfound", "unavailable"}
\* The probe of the container endpoint.
ProbeOutcomes == {[kind |-> "ok", code |-> c] : c \in {200, 204}}
                    \cup {HttpFail(c) : c \in {304, 404, 426, 500, 503}}
                    \cup {TransportFail}

----------------------------------------------------------------------------
(* Exceptions.  Inside main() every Exception reaches the except clause of *)
(* lines 244-246; a direct caller of poll_provisioning just sees it.       *)

FatalVerdict == "FATAL ERROR"

RaiseWith(e, code) ==
    /\ exc' = e
    /\ exc_code' = code
    /\ IF caller = "main"
       THEN /\ pc' = "done"
            /\ verdict' = FatalVerdict
            /\ exitCode' = 1
       ELSE /\ pc' = "raised"
            /\ UNCHANGED <<verdict, exitCode>>

\* An exception that is not an HTTPError.
Raise(e) == RaiseWith(e, 0)

----------------------------------------------------------------------------
(* generate_totp                                                           *)

\* Line 40: base64.b32decode(secret_b32, casefold=True), as the library computes it for the
\* secrets of the model; with casefold the lowercase spelling decodes to the same key.
B32Table ==
    {[secret |-> "GEZDGNBVGY3TQOJQGEZDGNBVGY3TQOJQ",
      key |-> <<49, 50, 51, 52, 53, 54, 55, 56, 57, 48, 49, 50, 51, 52, 53, 54, 55, 56, 57, 48>>],
     [secret |-> "gezdgnbvgy3tqojqgezdgnbvgy3tqojq",
      key |-> <<49, 50, 51, 52, 53, 54, 55, 56, 57, 48, 49, 50, 51, 52, 53, 54, 55, 56, 57, 48>>],
     [secret |-> "JBSWY3DPEHPK3PXP",
      key |-> <<72, 101, 108, 108, 111, 33, 222, 173, 190, 239>>]}

\* Line 43: hmac.new(key, msg, hashlib.sha1).digest(), as the library computes it for the
\* keys of the model and the 8-byte messages the model's clock can produce.
HmacSha1Table ==
    {[key |-> <<49, 50, 51, 52, 53, 54, 55, 56, 57, 48, 49, 50, 51, 52, 53, 54, 55, 56, 57, 48>>,
      msg |-> <<0, 0, 0, 0, 0, 0, 0, 0>>,
      digest |-> <<204, 147, 207, 24, 80, 141, 148, 147, 76, 100, 182, 93, 139, 167, 102, 127, 183, 205, 228, 176>>],
     [key |-> <<49, 50, 51, 52, 53, 54, 55, 56, 57, 48, 49, 50, 51, 52, 53, 54, 55, 56, 57, 48>>,
      msg |-> <<0, 0, 0, 0, 0, 0, 0, 1>>,
      digest |-> <<117, 164, 138, 25, 212, 203, 225, 0, 100, 78, 138, 193, 57, 126, 234, 116, 122, 45, 51, 171>>],
     [key |-> <<49, 50, 51, 52, 53, 54, 55, 56, 57, 48, 49, 50, 51, 52, 53, 54, 55, 56, 57, 48>>,
      msg |-> <<0, 0, 0, 0, 0, 0, 0, 2>>,
      digest |-> <<11, 172, 183, 250, 8, 47, 239, 48, 120, 34, 17, 147, 139, 193, 197, 231, 4, 22, 255, 68>>],
     [key |-> <<49, 50, 51, 52, 53, 54, 55, 56, 57, 48, 49, 50, 51, 52, 53, 54, 55, 56, 57, 48>>,
      msg |-> <<0, 0, 0, 0, 1, 26, 145, 246>>,
      digest |-> <<113, 140, 247, 17, 247, 117, 87, 215, 194, 147, 10, 139, 158, 244, 206, 94, 27, 176, 217, 60>>],
     [key |-> <<49, 50, 51, 52, 53, 54, 55, 56, 57, 48, 49, 50, 51, 52, 53, 54, 55, 56, 57, 48>>,
      msg |-> <<0, 0, 0, 0, 1, 26, 145, 247>>,
      digest |-> <<213, 87, 19, 139, 203, 69, 174, 13, 245, 86, 88, 217, 5, 241, 112, 1, 126, 74, 93, 184>>],
     [key |-> <<49, 50, 51, 52, 53, 54, 55, 56, 57, 48, 49, 50, 51, 52, 53, 54, 55, 56, 57, 48>>,
      msg |-> <<0, 0, 0, 0, 1, 57, 247, 131>>,
      digest |-> <<52, 247, 58, 146, 154, 224, 128, 121, 152, 196, 69, 31, 173, 11, 69, 71, 98, 17, 131, 188>>],
     [key |-> <<49, 50, 51, 52, 53, 54, 55, 56, 57, 48, 49, 50, 51, 52, 53, 54, 55, 56, 57, 48>>,
      msg |-> <<0, 0, 0, 0, 1, 57, 247, 132>>,
      digest |-> <<83, 57, 130, 108, 40, 152, 193, 164, 160, 219, 200, 112, 74, 202, 202, 173, 37, 218, 112, 108>>],
     [key |-> <<49, 50, 51, 52, 53, 54, 55, 56, 57, 48, 49, 50, 51, 52, 53, 54, 55, 56, 57, 48>>,
      msg |-> <<0, 0, 0, 0, 1, 252, 160, 85>>,
      digest |-> <<33, 130, 234, 146, 83, 134, 123, 30, 2, 53, 230, 70, 37, 133, 10, 130, 38, 109, 166, 107>>],
     [key |-> <<49, 50, 51, 52, 53, 54, 55, 56, 57, 48, 49, 50, 51, 52, 53, 54, 55, 56, 57, 48>>,
      msg |-> <<0, 0, 0, 0, 2, 53, 35, 236>>,
      digest |-> <<39, 140, 2, 229, 54, 16, 248, 76, 64, 189, 145, 53, 172, 212, 16, 16, 18, 65, 10, 20>>],
     [key |-> <<49, 50, 51, 52, 53, 54, 55, 56, 57, 48, 49, 50, 51, 52, 53, 54, 55, 56, 57, 48>>,
      msg |-> <<0, 0, 0, 0, 2, 53, 35, 237>>,
      digest |-> <<176, 9, 43, 33, 208, 72, 175, 32, 157, 160, 161, 221, 212, 152, 173, 232, 167, 148, 135, 237>>],
     [key |-> <<49, 50, 51, 52, 53, 54, 55, 56, 57, 48, 49, 50, 51, 52, 53, 54, 55, 56, 57, 48>>,
      msg |-> <<0, 0, 0, 0, 2, 115, 239, 7>>,
      digest |-> <<144, 124, 209, 169, 17, 101, 100, 236, 185, 213, 209, 120, 3, 37, 242, 70, 23, 63, 231, 3>>],
     [key |-> <<49, 50, 51, 52, 53, 54, 55, 56, 57, 48, 49, 50, 51, 52, 53, 54, 55, 56, 57, 48>>,
      msg |-> <<0, 0, 0, 0, 3, 249, 64, 170>>,
      digest |-> <<37, 163, 38, 211, 31, 195, 102, 36, 76, 173, 5, 73, 118, 2, 12, 123, 86, 177, 61, 95>>],
     [key |-> <<49, 50, 51, 52, 53, 54, 55, 56, 57, 48, 49, 50, 51, 52, 53, 54, 55, 56, 57, 48>>,
      msg |-> <<0, 0, 0, 0, 3, 249, 64, 171>>,
      digest |-> <<0, 8, 45, 162, 242, 45, 122, 44, 135, 109, 169, 57, 139, 17, 97, 20, 78, 169, 122, 122>>],
     [key |-> <<72, 101, 108, 108, 111, 33, 222, 173, 190, 239>>,
      msg |-> <<0, 0, 0, 0, 0, 0, 0, 0>>,
      digest |-> <<44, 216, 233, 4, 227, 149, 167, 65, 72, 119, 170, 47, 130, 97, 225, 36, 53, 114, 196, 53>>],
     [key |-> <<72, 101, 108, 108, 111, 33, 222, 173, 190, 239>>,
      msg |-> <<0, 0, 0, 0, 0, 0, 0, 1>>,
      digest |-> <<133, 63, 121, 182, 101, 10, 158, 60, 90, 129, 241, 121, 162, 9, 37, 59, 203, 190, 116, 2>>],
     [key |-> <<72, 101, 108, 108, 111, 33, 222, 173, 190, 239>>,
      msg |-> <<0, 0, 0, 0, 0, 0, 0, 2>>,
      digest |-> <<231, 126, 129, 100, 82, 252, 248, 124, 125, 138, 175, 205, 115, 9, 196, 0, 6, 47, 58, 135>>],
     [key |-> <<72, 101, 108, 108, 111, 33, 222, 173, 190, 239>>,
      msg |-> <<0, 0, 0, 0, 1, 26, 145, 246>>,
      digest |-> <<162, 84, 168, 66, 156, 75, 196, 21, 134, 173, 242, 211, 82, 116, 196, 7, 213, 151, 254, 235>>],
     [key |-> <<72, 101, 108, 108, 111, 33, 222, 173, 190, 239>>,
      msg |-> <<0, 0, 0, 0, 1, 26, 145, 247>>,
      digest |-> <<65, 131, 84, 164, 165, 197, 40, 21, 132, 112, 156, 21, 154, 127, 142, 255, 91, 159, 14, 226>>],
     [key |-> <<72, 101, 108, 108, 111, 33, 222, 173, 190, 239>>,
      msg |-> <<0, 0, 0, 0, 1, 57, 247, 131>>,
      digest |-> <<168, 112, 16, 154, 228, 35, 81, 147, 86, 39, 25, 186, 34, 11, 214, 129, 49, 68, 214, 41>>],
     [key |-> <<72, 101, 108, 108, 111, 33, 222, 173, 190, 239>>,
      msg |-> <<0, 0, 0, 0, 1, 57, 247, 132>>,
      digest |-> <<36, 184, 21, 173, 94, 58, 211, 25, 168, 141, 130, 201, 232, 17, 163, 221, 43, 36, 71, 54>>],
     [key |-> <<72, 101, 108, 108, 111, 33, 222, 173, 190, 239>>,
      msg |-> <<0, 0, 0, 0, 1, 252, 160, 85>>,
      digest |-> <<215, 174, 233, 161, 246, 183, 90, 6, 50, 225, 146, 102, 34, 84, 55, 230, 52, 25, 49, 61>>],
     [key |-> <<72, 101, 108, 108, 111, 33, 222, 173, 190, 239>>,
      msg |-> <<0, 0, 0, 0, 2, 53, 35, 236>>,
      digest |-> <<148, 240, 103, 76, 145, 167, 253, 65, 248, 182, 202, 243, 213, 0, 223, 25, 206, 82, 195, 114>>],
     [key |-> <<72, 101, 108, 108, 111, 33, 222, 173, 190, 239>>,
      msg |-> <<0, 0, 0, 0, 2, 53, 35, 237>>,
      digest |-> <<76, 30, 194, 165, 115, 253, 62, 185, 139, 109, 51, 242, 98, 85, 7, 54, 209, 134, 185, 51>>],
     [key |-> <<72, 101, 108, 108, 111, 33, 222, 173, 190, 239>>,
      msg |-> <<0, 0, 0, 0, 2, 115, 239, 7>>,
      digest |-> <<150, 177, 190, 0, 189, 169, 200, 28, 252, 74, 88, 240, 173, 159, 241, 47, 94, 206, 3, 239>>],
     [key |-> <<72, 101, 108, 108, 111, 33, 222, 173, 190, 239>>,
      msg |-> <<0, 0, 0, 0, 3, 249, 64, 170>>,
      digest |-> <<164, 141, 149, 1, 21, 164, 31, 20, 177, 103, 222, 75, 150, 148, 182, 50, 95, 43, 209, 248>>],
     [key |-> <<72, 101, 108, 108, 111, 33, 222, 173, 190, 239>>,
      msg |-> <<0, 0, 0, 0, 3, 249, 64, 171>>,
      digest |-> <<157, 187, 164, 63, 191, 46, 121, 136, 117, 24, 131, 40, 38, 162, 230, 38, 64, 68, 41, 235>>]}

\* Line 40.
B32Decode(secret) == (CHOOSE e \in B32Table : e.secret = secret).key

\* Variant: the counter is the time rounded to the nearest period.
CounterRounded(unix_time, per) == (unix_time + per \div 2) \div per

\* Line 41: counter = int(time.time()) // period.
Counter(unix_time, per) == unix_time \div per

\* Line 42: struct.pack(">Q", counter): n bytes, most significant first.
RECURSIVE PackBE(_, _)
PackBE(value, n) ==
    IF n = 0 THEN <<>> ELSE Append(PackBE(value \div 256, n - 1), value % 256)

\* Line 43.
HmacSha1(key, msg) == (CHOOSE e \in HmacSha1Table : e.key = key /\ e.msg = msg).digest

\* Variant: the offset is taken from the first byte of the digest.
TruncationOffsetFirstByte(h) == h[1] % 16

\* Line 44: offset = h[-1] & 0x0F.
TruncationOffset(h) == h[Len(h)] % 16

\* Line 45: h[offset : offset + 4].
Slice(h, offset) == SubSeq(h, offset + 1, offset + 4)

\* Line 45: struct.unpack(">I", word)[0] & 0x7FFFFFFF.  The mask clears the top bit of the
\* first byte; it is applied to that byte before the four are put together, so that the
\* value stays below 2^31 throughout.
UnpackMasked(word) ==
    (((word[1] % 128) * 256 + word[2]) * 256 + word[3]) * 256 + word[4]

\* Line 46: str(code), as the sequence of its decimal digits.
RECURSIVE Str(_)
Str(n) == IF n < 10 THEN <<n>> ELSE Append(Str(n \div 10), n % 10)

\* Line 46: zfill(width).
RECURSIVE ZFill(_, _)
ZFill(digits, width) ==
    IF Len(digits) >= width THEN digits ELSE ZFill(<<0>> \o digits, width)

\* Lines 38-46.
generate_totp(secret, per, unix_time) ==
    LET key == B32Decode(secret)
        counter == Counter(unix_time, per)
        msg == PackBE(counter, 8)
        h == HmacSha1(key, msg)
        offset == TruncationOffset(h)
        code == UnpackMasked(Slice(h, offset)) % 1000000
    IN  ZFill(Str(code), 6)

\* generate_totp is called on its own.
GenerateTotp ==
    /\ pc = "totp"
    /\ Len(codes) < MaxCodes
    /\ codes' = Append(codes, [at |-> now, code |-> generate_totp(secret_b32, period, now)])
    /\ UNCHANGED <<now, secret_b32, period, pc, caller, script, skip_health_wait,
                   timeout_secs, token, tenant_id, i, t, tenant, container_ok, health,
                   health_ok, report, verdict, exitCode, exc, exc_code, log>>

\* The times at which the clock of SpecTotp starts: the test times of RFC 6238 that fit
\* the integers, and one in the middle of the first window.
StartTimes == {14, 59, 1111111109, 1111111111, 1234567890, 2000000000}

\* A second passes.
Tick ==
    /\ pc = "totp"
    /\ \E s \in StartTimes : s <= now /\ now < s + MaxTicks
    /\ now' = now + 1
    /\ UNCHANGED <<secret_b32, period, codes, pc, caller, script, skip_health_wait,
                   timeout_secs, token, tenant_id, i, t, tenant, container_ok, health,
                   health_ok, report, verdict, exitCode, exc, exc_code, log>>

----------------------------------------------------------------------------
(* authenticate                                                            *)

\* Variant: a failed login is swallowed and the handshake goes on.
LoginSwallowing(resp) ==
    /\ pc = "login"
    /\ log' = Append(log, ApiRequest("authenticate", "POST", "/api/auth/login", Null, resp))
    /\ pc' = "mfa"
    /\ UNCHANGED <<now, secret_b32, period, codes, caller, script, skip_health_wait, timeout_secs, token, tenant_id, i, t,
                   tenant, container_ok, health, health_ok, report, exc, exc_code, verdict, exitCode>>

\* Lines 70-74: POST /api/auth/login; its body is not used.
Login(resp) ==
    /\ pc = "login"
    /\ LET call == ApiCall("authenticate", "POST", "/api/auth/login", Null, resp) IN
       /\ log' = log \o call.sent
       /\ IF call.raised = "none"
          THEN /\ pc' = "mfa"
               /\ UNCHANGED <<exc, exc_code, verdict, exitCode>>
          ELSE RaiseWith(call.raised, call.code)
    /\ UNCHANGED <<now, secret_b32, period, codes, caller, script, skip_health_wait, timeout_secs, token, tenant_id, i, t,
                   tenant, container_ok, health, health_ok, report>>

\* result["accessToken"], then token[:20] in the print of line 83.
TokenOf(result) ==
    IF "accessToken" \notin DOMAIN result THEN [raised |-> "KeyError"]
    ELSE IF result["accessToken"] = Null THEN [raised |-> "TypeError"]
    ELSE [raised |-> "none", value |-> result["accessToken"]]

\* Lines 76-84: generate_totp(MFA_SECRET_B32), then POST /api/auth/mfa/verify with the
\* code; main line 220 binds token.
MfaVerify(resp) ==
    /\ pc = "mfa"
    /\ codes' = Append(codes, [at |-> now, code |-> generate_totp(secret_b32, period, now)])
    /\ LET call == ApiCall("authenticate", "POST", "/api/auth/mfa/verify", Null, resp) IN
       /\ log' = log \o call.sent
       /\ IF call.raised # "none"
          THEN RaiseWith(call.raised, call.code) /\ UNCHANGED token
          ELSE LET r == TokenOf(call.value) IN
               IF r.raised # "none"
               THEN Raise(r.raised) /\ UNCHANGED token
               ELSE /\ token' = r.value
                    /\ pc' = "create"
                    /\ UNCHANGED <<exc, exc_code, verdict, exitCode>>
    /\ UNCHANGED <<now, secret_b32, period, caller, script, skip_health_wait, timeout_secs, tenant_id, i, t,
                   tenant, container_ok, health, health_ok, report>>

----------------------------------------------------------------------------
(* create_tenant                                                           *)

\* Lines 90-104: POST /api/admin/tenants; result["id"]; main line 221 binds tenant_id.
CreateTenant(resp) ==
    /\ pc = "create"
    /\ LET call == ApiCall("create_tenant", "POST", "/api/admin/tenants", token, resp) IN
       /\ log' = log \o call.sent
       /\ IF call.raised # "none"
          THEN RaiseWith(call.raised, call.code) /\ UNCHANGED tenant_id
          ELSE IF "id" \notin DOMAIN call.value
          THEN Raise("KeyError") /\ UNCHANGED tenant_id
          ELSE /\ tenant_id' = call.value["id"]
               /\ pc' = "poll"
               /\ UNCHANGED <<exc, exc_code, verdict, exitCode>>
    /\ UNCHANGED <<now, secret_b32, period, codes, caller, script, skip_health_wait, timeout_secs, token, i, t,
                   tenant, container_ok, health, health_ok, report>>

----------------------------------------------------------------------------
(* poll_provisioning                                                       *)

\* Variant: one iteration too many.
IterationsOffByOne(secs) == secs \div Interval + 1

\* Variant: the budget is not divided by the interval.
IterationsUndivided(secs) == secs

\* Line 113: iterations = timeout_secs // interval.
Iterations(secs) == secs \div Interval

\* Variant: the elif branch for "failed" is missing.
PollStopsOnlyActive(status) == status = "active"

\* Variant: everything but "provisioning" ends the loop.
PollStopsUnlessProvisioning(status) == status # "provisioning"

\* Lines 128-134: the statuses on which the loop returns.
PollStops(status) == status \in {"active", "failed"}

\* Lines 129 and 133: the line printed before returning from inside the loop.
ReportOf(status) == IF status = "active" THEN "PROVISIONING SUCCEEDED" ELSE "PROVISIONING FAILED"

TenantPath == "/api/admin/tenants/{tenant_id}"

\* Variant: fetch first, and sleep only after a fetch that does not end the loop.
IterationEventsFetchFirst(sent, goesOn) ==
    IF goesOn THEN sent \o <<Sleep(Interval)>> ELSE sent

\* Lines 116-117: what one iteration does to the outside world: time.sleep(interval) on
\* line 116, then the fetch on line 117, whatever the fetch will observe.
IterationEvents(sent, goesOn) == <<Sleep(Interval)>> \o sent

\* Variant: a failed fetch is swallowed and the loop goes on to its next iteration.
PollIterRetrying(resp) ==
    /\ pc = "poll"
    /\ i < Iterations(timeout_secs)
    /\ i' = i + 1
    /\ LET call == ApiCall("poll_provisioning", DefaultMethod, TenantPath, token, resp) IN
       /\ log' = log \o IterationEvents(call.sent,
                                        /\ call.raised = "none"
                                        /\ ~PollStops(Get(call.value, "status", "?")))
       /\ IF call.raised # "none"
          THEN /\ pc' = "poll"
               /\ UNCHANGED <<t, tenant, report, exc, exc_code, verdict, exitCode>>
          ELSE LET status == Get(call.value, "status", "?") IN
               /\ t' = call.value
               /\ IF PollStops(status)
                  THEN /\ report' = ReportOf(status)
                       /\ tenant' = call.value
                       /\ pc' = "poll_returned"
                  ELSE /\ pc' = "poll"
                       /\ UNCHANGED <<tenant, report>>
               /\ UNCHANGED <<exc, exc_code, verdict, exitCode>>
    /\ UNCHANGED <<now, secret_b32, period, codes, caller, script, skip_health_wait, timeout_secs, token, tenant_id,
                   container_ok, health, health_ok>>

\* Lines 115-134: one iteration of the loop: sleep, then fetch, then look at the status.
PollIter(resp) ==
    /\ pc = "poll"
    /\ i < Iterations(timeout_secs)
    /\ i' = i + 1
    /\ LET call == ApiCall("poll_provisioning", DefaultMethod, TenantPath, token, resp) IN
       /\ log' = log \o IterationEvents(call.sent,
                                        /\ call.raised = "none"
                                        /\ ~PollStops(Get(call.value, "status", "?")))
       /\ IF call.raised # "none"
          THEN RaiseWith(call.raised, call.code) /\ UNCHANGED <<t, tenant, report>>
          ELSE LET status == Get(call.value, "status", "?") IN
               /\ t' = call.value
               /\ IF PollStops(status)
                  THEN /\ report' = ReportOf(status)
                       /\ tenant' = call.value
                       /\ pc' = "poll_returned"
                  ELSE /\ pc' = "poll"
                       /\ UNCHANGED <<tenant, report>>
               /\ UNCHANGED <<exc, exc_code, verdict, exitCode>>
    /\ UNCHANGED <<now, secret_b32, period, codes, caller, script, skip_health_wait, timeout_secs, token, tenant_id,
                   container_ok, health, health_ok>>

\* Lines 136-137: the loop ran out; print TIMEOUT and return t (unbound if no iteration ran).
PollExhausted ==
    /\ pc = "poll"
    /\ i >= Iterations(timeout_secs)
    /\ report' = "TIMEOUT"
    /\ IF t = Unbound
       THEN Raise("UnboundLocalError") /\ UNCHANGED tenant
       ELSE /\ tenant' = t
            /\ pc' = "poll_returned"
            /\ UNCHANGED <<exc, exc_code, verdict, exitCode>>
    /\ UNCHANGED <<now, secret_b32, period, codes, caller, script, skip_health_wait, timeout_secs, token, tenant_id, i, t,
                   container_ok, health, health_ok, log>>

\* Inside main(): the backend answers each fetch as it pleases.
PollResponses == {Ok(r) : r \in TenantRecords} \cup Failures
PollLive == caller = "main" /\ \E resp \in PollResponses : PollIter(resp)

\* Called directly: the k-th fetch gets the k-th scripted response.
PollScripted == caller = "direct" /\ i < Len(script) /\ PollIter(script[i + 1])

----------------------------------------------------------------------------
(* main, lines 224-226                                                     *)

ProvisioningFailedVerdict == "FAILED: Provisioning did not complete successfully"
Continue == [verdict |-> "none", exitCode |-> NoExit]

\* Variant: a record that is neither active nor failed gets a verdict and exit code of its own.
ProvisioningOutcomeTimeoutDistinct(rec) ==
    IF Get(rec, "status", Null) = "active" THEN Continue
    ELSE IF Get(rec, "status", Null) = "failed"
    THEN [verdict |-> ProvisioningFailedVerdict, exitCode |-> 1]
    ELSE [verdict |-> "FAILED: Provisioning timed out", exitCode |-> 2]

\* Variant: the status check of line 224 is missing.
ProvisioningOutcomeUnchecked(rec) == Continue

\* What main does with the poller's record: exit 1 unless its status is active.
ProvisioningOutcome(rec) ==
    IF Get(rec, "status", Null) # "active"
    THEN [verdict |-> ProvisioningFailedVerdict, exitCode |-> 1]
    ELSE Continue

MainCheckStatus ==
    /\ pc = "poll_returned"
    /\ caller = "main"
    /\ LET o == ProvisioningOutcome(tenant) IN
       IF o # Continue
       THEN /\ verdict' = o.verdict
            /\ exitCode' = o.exitCode
            /\ pc' = "done"
       ELSE /\ pc' = "verify_container"
            /\ UNCHANGED <<verdict, exitCode>>
    /\ UNCHANGED <<now, secret_b32, period, codes, caller, script, skip_health_wait, timeout_secs, token, tenant_id, i, t,
                   tenant, container_ok, health, health_ok, report, exc, exc_code, log>>

----------------------------------------------------------------------------
(* verify_container                                                        *)

EmptyDict == <<>>

\* Line 144.
ContainerUrl(rec) == Get(Get(rec, "config", EmptyDict), "containerEndpoint", "")

\* Lines 152-166: what the docker cross-check prints; every exception is caught.
DockerLine(rec, docker) ==
    IF docker = "unavailable" \/ "id" \notin DOMAIN rec
    THEN "WARNING: Could not check docker"
    ELSE IF docker = "found" THEN "Docker: <line>"
    ELSE "WARNING: Container not found in docker ps"

\* Variant: 426 is not on the allow-list.
ProbeVerdictNo426(probe) ==
    IF probe.kind = "ok" THEN TRUE
    ELSE IF probe.kind = "http" THEN probe.code = 404
    ELSE FALSE

\* Lines 169-185: the verdict on the HTTP probe.
ProbeVerdict(probe) ==
    IF probe.kind = "ok" THEN TRUE
    ELSE IF probe.kind = "http" THEN probe.code \in {404, 426}
    ELSE FALSE

\* Line 170: the probe's method.
ProbeMethod == "GET"

\* Variant: the docker cross-check takes part in the result.
ContainerCheckDockerDecides(rec, docker, probe) ==
    [events |-> <<[op |-> "docker", printed |-> DockerLine(rec, docker)],
                  [op |-> "probe", method |-> ProbeMethod, url |-> ContainerUrl(rec),
                   outcome |-> probe.kind, code |-> Get(probe, "code", 0)]>>,
     ok |-> DockerLine(rec, docker) = "Docker: <line>" /\ ProbeVerdict(probe)]

\* Lines 151-185: on a record with an endpoint, the docker cross-check only prints; the
\* probe follows it in every case and alone decides the result.
ContainerCheck(rec, docker, probe) ==
    [events |-> <<[op |-> "docker", printed |-> DockerLine(rec, docker)],
                  [op |-> "probe", method |-> ProbeMethod, url |-> ContainerUrl(rec),
                   outcome |-> probe.kind, code |-> Get(probe, "code", 0)]>>,
     ok |-> ProbeVerdict(probe)]

\* Lines 140-185.
VerifyContainer(docker, probe) ==
    /\ pc = "verify_container"
    /\ IF ~Truthy(ContainerUrl(tenant))
       THEN /\ container_ok' = FALSE
            /\ UNCHANGED log
       ELSE LET check == ContainerCheck(tenant, docker, probe) IN
            /\ log' = log \o check.events
            /\ container_ok' = check.ok
    /\ pc' = "container_checked"
    /\ UNCHANGED <<now, secret_b32, period, codes, caller, script, skip_health_wait, timeout_secs, token, tenant_id, i, t,
                   tenant, health, health_ok, report, verdict, exitCode, exc, exc_code>>

ContainerFailedVerdict == "FAILED: Container verification failed"

\* Variant: a failed container check does not end the run.
MainCheckContainerNonFatal ==
    /\ pc = "container_checked"
    /\ pc' = IF ~skip_health_wait THEN "verify_health" ELSE "summary"
    /\ UNCHANGED <<now, secret_b32, period, codes, caller, script, skip_health_wait, timeout_secs, token, tenant_id, i, t,
                   tenant, container_ok, health, health_ok, report, verdict, exitCode, exc, exc_code, log>>

\* main, lines 229-233.
MainCheckContainer ==
    /\ pc = "container_checked"
    /\ IF ~container_ok
       THEN /\ verdict' = ContainerFailedVerdict
            /\ exitCode' = 1
            /\ pc' = "done"
       ELSE /\ pc' = IF ~skip_health_wait THEN "verify_health" ELSE "summary"
            /\ UNCHANGED <<verdict, exitCode>>
    /\ UNCHANGED <<now, secret_b32, period, codes, caller, script, skip_health_wait, timeout_secs, token, tenant_id, i, t,
                   tenant, container_ok, health, health_ok, report, exc, exc_code, log>>

----------------------------------------------------------------------------
(* verify_health_monitor                                                   *)

\* Lines 194-195.
HealthStatus(rec) ==
    LET h == Get(rec, "containerHealth", JObject(EmptyDict)) IN
    IF IsDict(h) THEN Get(h.fields, "status", "?") ELSE "?"

\* Variant: everything but "unhealthy" passes.
HealthVerdictLenient(rec) == HealthStatus(rec) # "unhealthy"

\* Lines 198-203.
HealthVerdict(rec) == HealthStatus(rec) = "healthy"

\* Lines 191-203: wait for a health-check cycle, re-fetch, inspect.
VerifyHealthMonitor(resp) ==
    /\ pc = "verify_health"
    /\ LET call == ApiCall("verify_health_monitor", DefaultMethod, TenantPath, token, resp) IN
       /\ log' = log \o <<Sleep(HealthWait)>> \o call.sent
       /\ IF call.raised # "none"
          THEN RaiseWith(call.raised, call.code) /\ UNCHANGED <<health, health_ok>>
          ELSE /\ health' = call.value
               /\ health_ok' = HealthVerdict(call.value)
               /\ pc' = "health_checked"
               /\ UNCHANGED <<exc, exc_code, verdict, exitCode>>
    /\ UNCHANGED <<now, secret_b32, period, codes, caller, script, skip_health_wait, timeout_secs, token, tenant_id, i, t,
                   tenant, container_ok, report>>

HealthWarning == [op |-> "print", line |-> "WARNING: Health monitor verification failed (non-fatal)"]

\* Variant: a health check that returned false ends the run like a failed container check.
MainAfterHealthFatal ==
    /\ pc = "health_checked"
    /\ IF ~health_ok
       THEN /\ verdict' = "FAILED: Health monitor verification failed"
            /\ exitCode' = 1
            /\ pc' = "done"
       ELSE /\ pc' = "summary"
            /\ UNCHANGED <<verdict, exitCode>>
    /\ UNCHANGED <<now, secret_b32, period, codes, caller, script, skip_health_wait, timeout_secs, token, tenant_id, i, t,
                   tenant, container_ok, health, health_ok, report, exc, exc_code, log>>

\* main, lines 235-236.
MainAfterHealth ==
    /\ pc = "health_checked"
    /\ log' = IF ~health_ok THEN Append(log, HealthWarning) ELSE log
    /\ pc' = "summary"
    /\ UNCHANGED <<now, secret_b32, period, codes, caller, script, skip_health_wait, timeout_secs, token, tenant_id, i, t,
                   tenant, container_ok, health, health_ok, report, verdict, exitCode, exc, exc_code>>

PassedVerdict == "ALL CHECKS PASSED"

\* main, lines 238-242, and the normal end of the process.
Summary ==
    /\ pc = "summary"
    /\ verdict' = PassedVerdict
    /\ exitCode' = 0
    /\ pc' = "done"
    /\ UNCHANGED <<now, secret_b32, period, codes, caller, script, skip_health_wait, timeout_secs, token, tenant_id, i, t,
                   tenant, container_ok, health, health_ok, report, exc, exc_code, log>>

----------------------------------------------------------------------------
(* The specifications.                                                     *)

Fresh ==
    /\ i = 0
    /\ t = Unbound
    /\ tenant = Unbound
    /\ container_ok = FALSE
    /\ health = Unbound
    /\ health_ok = FALSE
    /\ report = "none"
    /\ verdict = "none"
    /\ exitCode = NoExit
    /\ exc = "none"
    /\ exc_code = 0
    /\ log = <<>>

\* Line 76: main's handshake calls generate_totp(MFA_SECRET_B32) with the default period;
\* the run starts at some second of the clock.
TotpOfMain ==
    /\ now = 59
    /\ secret_b32 = MFA_SECRET_B32
    /\ period = DefaultPeriod
    /\ codes = <<>>

\* main() is entered; the flag comes from the command line.
Init ==
    /\ pc = "login"
    /\ caller = "main"
    /\ script = <<>>
    /\ skip_health_wait \in BOOLEAN
    /\ timeout_secs = DefaultTimeoutSecs
    /\ token = Null
    /\ tenant_id = Null
    /\ Fresh
    /\ TotpOfMain

Next ==
    \/ \E resp \in {Ok([message |-> "MFA required"])} \cup Failures : Login(resp)
    \/ \E resp \in {Ok(b) : b \in MfaBodies} \cup Failures : MfaVerify(resp)
    \/ \E resp \in {Ok(b) : b \in CreateBodies} \cup Failures : CreateTenant(resp)
    \/ PollLive
    \/ PollExhausted
    \/ MainCheckStatus
    \/ \E docker \in DockerOutcomes, probe \in ProbeOutcomes : VerifyContainer(docker, probe)
    \/ MainCheckContainer
    \/ \E resp \in {Ok(r) : r \in HealthRecords} \cup Failures : VerifyHealthMonitor(resp)
    \/ MainAfterHealth
    \/ Summary

Spec == Init /\ [][Next]_vars

\* Every request has a timeout (line 58: 30 s; line 171: 5 s), so has docker ps (line 156:
\* 5 s), and every sleep is finite: a step that can be taken is eventually taken.
FairSpec == Spec /\ WF_vars(Next)

\* poll_provisioning(base_url, token, tenant_id, timeout_secs) on its own, against a script.
ScriptResponses ==
    {Ok(r) : r \in PendingRecords}
      \cup {Ok([id |-> x, status |-> "active", config |-> [containerEndpoint |-> Endpoint]]) :
                x \in TenantIds}
      \cup {Ok([id |-> x, status |-> "failed"]) : x \in TenantIds}
      \cup {HttpFail(500), TransportFail}

InitPoll ==
    /\ pc = "poll"
    /\ caller = "direct"
    /\ script \in [1..Iterations(MaxTimeout) -> ScriptResponses]
    /\ skip_health_wait = FALSE
    /\ timeout_secs \in 0..MaxTimeout
    /\ token = "tokA"
    /\ tenant_id \in TenantIds
    /\ Fresh
    /\ TotpOfMain

NextPoll ==
    \/ PollScripted
    \/ PollExhausted

SpecPoll == InitPoll /\ [][NextPoll]_vars

\* generate_totp called directly: any secret of the table, the default period or twice
\* that, the clock at a start time.
RfcSecret == "GEZDGNBVGY3TQOJQGEZDGNBVGY3TQOJQ"
RfcSecretLower == "gezdgnbvgy3tqojqgezdgnbvgy3tqojq"

InitTotp ==
    /\ pc = "totp"
    /\ caller = "direct"
    /\ script = <<>>
    /\ skip_health_wait = FALSE
    /\ timeout_secs = DefaultTimeoutSecs
    /\ token = Null
    /\ tenant_id = Null
    /\ Fresh
    /\ now \in StartTimes
    /\ secret_b32 \in {RfcSecret, RfcSecretLower, MFA_SECRET_B32}
    /\ period \in {DefaultPeriod, 2 * DefaultPeriod}
    /\ codes = <<>>

NextTotp ==
    \/ GenerateTotp
    \/ Tick

SpecTotp == InitTotp /\ [][NextTotp]_vars

----------------------------------------------------------------------------
(* What the run did, read off the log.                                     *)

RequestsBy(fn) == SelectSeq(log, LAMBDA e : e.op = "request" /\ e.by = fn)
Fetches == Len(RequestsBy("poll_provisioning"))
Probes == SelectSeq(log, LAMBDA e : e.op = "probe")
DockerChecks == SelectSeq(log, LAMBDA e : e.op = "docker")

\* A scripted response that is a Tenant Record with a terminal status.
TerminalResponse(r) == r.kind = "ok" /\ Get(r.body, "status", "?") \in {"active", "failed"}
\* A scripted response that is a Tenant Record with any other status, or none.
PendingResponse(r) == r.kind = "ok" /\ ~TerminalResponse(r)
\* The first terminal status of the script is at position k, after k-1 pending records.
FirstTerminalAt(k) ==
    /\ k \in 1..Len(script)
    /\ TerminalResponse(script[k])
    /\ \A j \in 1..(k - 1) : PendingResponse(script[j])
\* The first n scripted responses are all pending records.
AllPending(n) == n <= Len(script) /\ \A j \in 1..n : PendingResponse(script[j])

----------------------------------------------------------------------------
(* Claims about poll_provisioning, under SpecPoll.                         *)

\* C1: when the first terminal status (active or failed) of the script is at position k
\* and k is within the budget floor(timeout_secs/10), the poller never makes more than k
\* fetches, does not raise, is still short of k fetches while it runs, and when it has
\* returned it has made exactly k fetches and holds exactly the k-th record.
C1_FirstTerminalReturned ==
    \A k \in 1..Len(script) :
        (FirstTerminalAt(k) /\ k <= timeout_secs \div 10) =>
            /\ Fetches <= k
            /\ pc # "raised"
            /\ (pc = "poll" => Fetches < k)
            /\ (pc = "poll_returned" => Fetches = k /\ tenant = script[k].body)

\* C1 witness: [pending, failed, ...] with a budget of 3: returned at the 2nd fetch.
C1_Witness ==
    /\ pc = "poll_returned"
    /\ timeout_secs \div 10 = 3
    /\ FirstTerminalAt(2)
    /\ Get(tenant, "status", "?") = "failed"
    /\ Fetches = 2

\* C2: the poller never makes more than floor(timeout_secs/10) fetches; when all the
\* responses within that budget are pending records, it ends having made exactly that
\* many, and what it returns is the record of the last of them.
C2_BudgetExhausted ==
    LET n == timeout_secs \div 10 IN
    /\ Fetches <= n
    /\ AllPending(n) =>
        /\ (pc \in {"poll_returned", "raised"} => Fetches = n)
        /\ (pc = "poll_returned" => tenant = script[n].body /\ report = "TIMEOUT")
        /\ (n >= 1 => pc # "raised")

\* C2 witness: three pending records, the last unlike the one before, budget 3, returned.
C2_Witness ==
    /\ pc = "poll_returned"
    /\ timeout_secs \div 10 = 3
    /\ AllPending(3)
    /\ script[2] # script[3]
    /\ Fetches = 3
    /\ tenant = script[3].body

\* C9: for every timeout_secs >= 0, a budget of 0 included, when all the responses within
\* the budget are pending records the poller does not raise, and what it returns is a
\* Tenant Record.
C9_ExhaustionNeverRaises ==
    AllPending(timeout_secs \div 10) =>
        /\ pc # "raised"
        /\ (pc = "poll_returned" => tenant # Unbound)

----------------------------------------------------------------------------
(* Claims about a run of main(), under Spec.                               *)

LoginPath == "/api/auth/login"
MfaPath == "/api/auth/mfa/verify"
\* Positions in the log of the requests to a path.
RequestsTo(path) == {k \in 1..Len(log) : log[k].op = "request" /\ log[k].path = path}
\* Positions in the log of the requests a function made.
RequestsOf(fn) == {k \in 1..Len(log) : log[k].op = "request" /\ log[k].by = fn}

AuthenticationFailed ==
    \E k \in RequestsTo(LoginPath) \cup RequestsTo(MfaPath) : log[k].outcome # "ok"
CreationFailed == \E k \in RequestsOf("create_tenant") : log[k].outcome # "ok"
PollerReturned == tenant # Unbound
PolledActive == PollerReturned /\ Get(tenant, "status", "?") = "active"

\* C3: the exit code of a finished run is 0 or 1, and it is 0 exactly when no exception
\* left a step, neither handshake request nor the creation request failed, the poller
\* returned an active record and the liveness check passed -- whatever the health-monitor
\* check reported and whether or not it was skipped.
C3_ExitCodeMapping ==
    pc = "done" =>
        /\ exitCode \in {0, 1}
        /\ exitCode = 0 <=>
            /\ exc = "none"
            /\ ~AuthenticationFailed
            /\ ~CreationFailed
            /\ PolledActive
            /\ container_ok

\* C3 witness: a run that ended 0 although the health monitor did not report healthy.
C3_Witness ==
    /\ pc = "done"
    /\ exitCode = 0
    /\ ~skip_health_wait
    /\ health # Unbound
    /\ ~health_ok

C5_HealthCheckNeverFatal ==
    (pc = "done" /\ PolledActive /\ container_ok) => exitCode = 0

\* The re-fetch of verify_health_monitor ended in an HttpError or a TransportError.
HealthFetchFailed == \E k \in RequestsOf("verify_health_monitor") : log[k].outcome # "ok"

\* C5 amended: once the poller has returned active and the liveness check has passed, the
\* run ends with exit code 0 whenever the health-monitor check returns (healthy, any other
\* value, a missing or non-object field) or is skipped; when its re-fetch ends in an
\* HttpError or a TransportError that exception reaches main's except clause and the run
\* ends with exit code 1 as a fatal error.
C5_HealthCheckFatalOnlyOnFetchError ==
    (pc = "done" /\ PolledActive /\ container_ok) =>
        IF HealthFetchFailed
        THEN exitCode = 1 /\ verdict = "FATAL ERROR" /\ exc \in {"HTTPError", "URLError"}
        ELSE exitCode = 0 /\ verdict = "ALL CHECKS PASSED" /\ exc = "none"

\* C5 witness: active, liveness passed, the re-fetch failed at the network level, exit 1.
C5_Witness ==
    /\ pc = "done"
    /\ PolledActive
    /\ container_ok
    /\ \E k \in RequestsOf("verify_health_monitor") : log[k].outcome = "transport"
    /\ exitCode = 1

\* The Tenant Record has a non-empty containerEndpoint in its config.
HasEndpoint(rec) ==
    /\ "config" \in DOMAIN rec
    /\ "containerEndpoint" \in DOMAIN rec["config"]
    /\ rec["config"]["containerEndpoint"] # ""

\* C6: after verify_container, its result is: without a non-empty containerEndpoint,
\* fail and no probe sent; otherwise exactly one probe, and pass on a 2xx response, pass
\* on 404 and 426, fail on every other non-2xx code, fail on a transport failure.
C6_LivenessVerdict ==
    pc = "container_checked" =>
        IF ~HasEndpoint(tenant)
        THEN ~container_ok /\ Len(Probes) = 0
        ELSE /\ Len(Probes) = 1
             /\ LET p == Probes[1] IN
                container_ok <=>
                    \/ p.outcome = "ok" /\ p.code \in 200..299
                    \/ p.outcome = "http" /\ p.code \in {404, 426}

\* C6 witness: the probe was answered 426 and the check passed.
C6_Witness ==
    /\ pc = "container_checked"
    /\ Len(Probes) = 1
    /\ Probes[1].outcome = "http"
    /\ Probes[1].code = 426
    /\ container_ok

\* containerHealth is an object whose status is "healthy".
ReportsHealthy(rec) ==
    /\ "containerHealth" \in DOMAIN rec
    /\ rec["containerHealth"].type = "object"
    /\ "status" \in DOMAIN rec["containerHealth"].fields
    /\ rec["containerHealth"].fields["status"] = "healthy"

\* C7: once the record has been re-fetched, verify_health_monitor has not raised, and its
\* result is pass exactly when containerHealth is an object with status "healthy".
C7_HealthVerdict ==
    health # Unbound =>
        /\ exc = "none"
        /\ health_ok <=> ReportsHealthy(health)

\* C7 witness: containerHealth is null, the check returned false, no exception.
C7_Witness ==
    /\ pc = "health_checked"
    /\ "containerHealth" \in DOMAIN health
    /\ health["containerHealth"].type = "null"
    /\ ~health_ok
    /\ exc = "none"

\* C8: a probe, a docker inspection or a health re-fetch is in the log only if the poller
\* has returned a record whose status is active; a health re-fetch is in the log only if
\* the liveness check has passed, its probe coming before the re-fetch.
C8_VerifierOnlyAfterActive ==
    /\ (Len(Probes) > 0 \/ Len(DockerChecks) > 0 \/ RequestsOf("verify_health_monitor") # {})
          => PolledActive
    /\ \A k \in RequestsOf("verify_health_monitor") :
          /\ container_ok
          /\ \E j \in 1..(k - 1) : log[j].op = "probe"

\* C8 witness: the health monitor was re-fetched, after a probe.
C8_Witness ==
    /\ pc = "health_checked"
    /\ Len(Probes) = 1
    /\ RequestsOf("verify_health_monitor") # {}

\* C10: one run sends at most one login and at most one MFA-verify request; the MFA-verify
\* request comes after a login request that succeeded; when either request failed there is
\* no token, the HttpError/TransportError has ended the run with a non-zero exit code and
\* nothing was sent after the failed request; a tenant-creation or polling request comes
\* only after an MFA-verify request that succeeded and with a token bound.
C10_HandshakeFailFast ==
    /\ Cardinality(RequestsTo(LoginPath)) <= 1
    /\ Cardinality(RequestsTo(MfaPath)) <= 1
    /\ \A k \in RequestsTo(MfaPath) :
          \E j \in RequestsTo(LoginPath) : j < k /\ log[j].outcome = "ok"
    /\ \A k \in RequestsTo(LoginPath) \cup RequestsTo(MfaPath) :
          log[k].outcome # "ok" =>
              /\ token = Null
              /\ exc \in {"HTTPError", "URLError"}
              /\ pc = "done"
              /\ exitCode = 1
              /\ k = Len(log)
    /\ \A k \in RequestsOf("create_tenant") \cup RequestsOf("poll_provisioning") :
          /\ token # Null
          /\ \E j \in RequestsTo(MfaPath) : j < k /\ log[j].outcome = "ok"

\* C10 witness: login succeeded, MFA verification failed, the run is over without a token.
C10_Witness ==
    /\ pc = "done"
    /\ Cardinality(RequestsTo(LoginPath)) = 1
    /\ \E k \in RequestsTo(MfaPath) : log[k].outcome = "http"
    /\ token = Null
    /\ exitCode = 1

----------------------------------------------------------------------------
(* Claims about the requests of a run, under Spec.                         *)

AuthenticatedCallers == {"create_tenant", "poll_provisioning", "verify_health_monitor"}

\* C11: every request made after the handshake -- tenant creation, every poll, the health
\* re-fetch -- carries an Authorization header holding main's token, the one MFA
\* verification returned, whatever value that is; the two handshake requests carry none.
C11_BearerOnEveryAuthenticatedRequest ==
    \A k \in 1..Len(log) :
        log[k].op = "request" =>
            IF log[k].by \in AuthenticatedCallers
            THEN /\ token \in Tokens
                 /\ "Authorization" \in DOMAIN log[k].headers
                 /\ log[k].headers["Authorization"] = token
            ELSE "Authorization" \notin DOMAIN log[k].headers

----------------------------------------------------------------------------
(* Claims about api_call and the poller's loop, under SpecPoll: the i-th   *)
(* api_call of the poller gets the i-th scripted response.                 *)

\* What t holds when the i-th api_call returned no value: what it held before.
ValueBeforeCall == IF i = 1 THEN Unbound ELSE script[i - 1].body

\* C14: after i calls of api_call exactly i requests have been sent, the k-th ending as
\* the k-th scripted response says; after a 2xx response the caller holds the parsed body
\* and no exception is in flight; after a non-2xx response an HTTPError with that status
\* code has left the call, after a network failure a URLError, and in both cases the
\* caller got no value and nothing further is sent.
C14_OneRequestNoSwallow ==
    /\ Fetches = i
    /\ \A k \in 1..i : RequestsBy("poll_provisioning")[k].outcome = script[k].kind
    /\ i >= 1 =>
        LET r == script[i] IN
        CASE r.kind = "ok" -> exc = "none" /\ t = r.body /\ pc \in {"poll", "poll_returned"}
          [] r.kind = "http" ->
                /\ pc = "raised"
                /\ exc = "HTTPError"
                /\ exc_code = r.code
                /\ t = ValueBeforeCall
                /\ tenant = Unbound
          [] r.kind = "transport" ->
                /\ pc = "raised"
                /\ exc = "URLError"
                /\ t = ValueBeforeCall
                /\ tenant = Unbound

\* C14 witness: the second call was answered 500; HTTPError(500) left it after 2 requests.
C14_Witness ==
    /\ pc = "raised"
    /\ i = 2
    /\ Fetches = 2
    /\ script[2].kind = "http"
    /\ exc = "HTTPError"
    /\ exc_code = 500

\* The sleeps of the poller, in order.
Sleeps == SelectSeq(log, LAMBDA e : e.op = "sleep")

\* The poller returned from inside its loop, on a terminal status.
ReturnedOnTerminal == pc = "poll_returned" /\ PollStops(Get(tenant, "status", "?"))

\* C15 as stated: the first fetch is not preceded by a sleep, and a run that ended on a
\* terminal status after k fetches slept k-1 times.
C15_SleepOnlyBetweenFetches ==
    /\ log # <<>> => log[1].op = "request"
    /\ ReturnedOnTerminal => Len(Sleeps) = Fetches - 1

\* C15 amended: every iteration sleeps the fixed interval first and fetches next, so the
\* poller's events alternate sleep, fetch, sleep, fetch...: every fetch, the first
\* included, is directly preceded by a sleep of 10 seconds, no sleep follows the last
\* fetch, and a run that ended on a terminal status after k fetches slept exactly k times.
C15_SleepBeforeEachFetch ==
    /\ Len(log) = 2 * i
    /\ \A k \in 1..i :
          /\ log[2 * k - 1] = Sleep(Interval)
          /\ log[2 * k].op = "request"
    /\ Len(Sleeps) = Fetches
    /\ ReturnedOnTerminal => Len(Sleeps) = i

\* C15 witness: a run that ended on a terminal status at its second fetch, after 2 sleeps.
C15_Witness ==
    /\ ReturnedOnTerminal
    /\ Fetches = 2
    /\ Len(Sleeps) = 2
    /\ log[1] = Sleep(Interval)

\* Iterations of the budget are left.
BudgetRemains == i < Iterations(timeout_secs)

\* C16: while budget remains, a fetched record whose status is provisioning, any other
\* value than active and failed, or missing, does not make the poller return: it is still
\* in its loop with nothing returned, about to poll again; and when the poller has
\* returned with budget remaining, the record it returned is active or failed.
C16_OnlyActiveFailedTerminal ==
    /\ (i >= 1 /\ BudgetRemains /\ PendingResponse(script[i])) =>
          /\ pc = "poll"
          /\ tenant = Unbound
          /\ ENABLED PollScripted
    /\ (pc = "poll_returned" /\ BudgetRemains) =>
          Get(tenant, "status", "?") \in {"active", "failed"}

\* C16 witness: a record without status, then one with an unknown status, and the poller
\* is still polling with budget left.
C16_Witness ==
    /\ pc = "poll"
    /\ i = 2
    /\ BudgetRemains
    /\ Get(script[1].body, "status", "?") = "?"
    /\ Get(script[2].body, "status", "?") = "suspended"

----------------------------------------------------------------------------
(* Claims about whole runs of main, under Spec.                            *)

CreatePath == "/api/admin/tenants"

\* Positions in the log of the requests that are not plain reads.
Writes == {k \in 1..Len(log) : log[k].op = "request" /\ log[k].method # "GET"}

\* C17: over any run, every request is a GET or a POST; the only requests that are not
\* GETs are the two handshake POSTs and the tenant-creation POST, and the creation POST is
\* sent at most once; every request of the poller and of the health-monitor check is a GET
\* of the tenant, and the liveness probe is a GET of the container URL, never of the
\* backend.
C17_OnlyCreationWrites ==
    /\ \A k \in Writes :
          /\ log[k].method = "POST"
          /\ log[k].path \in {LoginPath, MfaPath, CreatePath}
    /\ Cardinality(RequestsTo(CreatePath)) <= 1
    /\ RequestsTo(CreatePath) = RequestsOf("create_tenant")
    /\ \A k \in RequestsOf("poll_provisioning") \cup RequestsOf("verify_health_monitor") :
          /\ log[k].method = "GET"
          /\ log[k].path = TenantPath
    /\ \A k \in 1..Len(Probes) :
          /\ Probes[k].method = "GET"
          /\ Probes[k].url = Endpoint

\* C17 witness: a complete run: one creation POST, several polls, a probe and the health
\* re-fetch.
C17_Witness ==
    /\ pc = "done"
    /\ exitCode = 0
    /\ Cardinality(RequestsTo(CreatePath)) = 1
    /\ Fetches >= 2
    /\ Len(Probes) = 1
    /\ RequestsOf("verify_health_monitor") # {}

\* Positions in the log of the status fetches that ended in an error.
FailedFetches == {k \in RequestsOf("poll_provisioning") : log[k].outcome # "ok"}

\* C18: a status fetch that ended in an HTTP or transport error is the last thing the run
\* did: no fetch, sleep, docker check, probe or health re-fetch follows it, the poller
\* returned no record, and the run is over with that error as a fatal error and exit
\* code 1 -- whatever budget was left.
C18_PollErrorEndsRun ==
    \A k \in FailedFetches :
        /\ k = Len(log)
        /\ tenant = Unbound
        /\ exc = (IF log[k].outcome = "http" THEN "HTTPError" ELSE "URLError")
        /\ pc = "done"
        /\ verdict = FatalVerdict
        /\ exitCode = 1

\* C18 witness: the second of 24 possible fetches failed with HTTP 500 and the run ended.
C18_Witness ==
    /\ FailedFetches # {}
    /\ Fetches = 2
    /\ i < Iterations(timeout_secs)
    /\ exc = "HTTPError"
    /\ exc_code = 500
    /\ pc = "done"
    /\ exitCode = 1

\* The probe of the run passed: a 2xx, or a 404 or 426 (read off the probe's own event).
ProbePassed ==
    /\ Len(Probes) = 1
    /\ \/ Probes[1].outcome = "ok"
       \/ Probes[1].outcome = "http" /\ Probes[1].code \in {404, 426}

\* The probe outcome the run saw, rebuilt from the probe's event.
ProbeSeen ==
    IF Probes[1].outcome = "http" THEN [kind |-> "http", code |-> Probes[1].code]
    ELSE IF Probes[1].outcome = "ok" THEN [kind |-> "ok", code |-> Probes[1].code]
    ELSE [kind |-> "transport"]

\* C19: on a record with a container endpoint, whatever the docker cross-check did (entry
\* found, no entry, listing unavailable or raising, record without id), the probe is
\* performed right after it, and the result of verify_container is the probe's verdict:
\* with the same record and the same probe outcome, every docker outcome gives the result
\* this run got; and the exit code of the finished run is 0 exactly when the probe passed
\* and nothing raised afterwards, in which the docker outcome does not appear.
C19_DockerNeverDecides ==
    /\ Len(DockerChecks) = Len(Probes)
    /\ Len(Probes) <= 1
    /\ Len(Probes) = 1 =>
          /\ \E k \in 1..(Len(log) - 1) : log[k].op = "docker" /\ log[k + 1].op = "probe"
          /\ pc # "verify_container"
          /\ container_ok = ProbePassed
          /\ \A d \in DockerOutcomes :
                ContainerCheck(tenant, d, ProbeSeen).ok = container_ok
          /\ pc = "done" => (exitCode = 0 <=> (ProbePassed /\ ~HealthFetchFailed))

\* C19 witness: the record has no id, so the cross-check raised and was reported as
\* unavailable; the probe still ran and passed, and the run exited 0.
C19_Witness ==
    /\ pc = "done"
    /\ exitCode = 0
    /\ "id" \notin DOMAIN tenant
    /\ Len(DockerChecks) = 1
    /\ DockerChecks[1].printed = "WARNING: Could not check docker"
    /\ ProbePassed

----------------------------------------------------------------------------
(* Termination, under FairSpec.                                            *)

Verdicts == {PassedVerdict, ProvisioningFailedVerdict, ContainerFailedVerdict, FatalVerdict}

\* A finished run carries exactly one verdict and the exit code that goes with it.
OneVerdict ==
    /\ verdict \in Verdicts
    /\ exitCode \in {0, 1}
    /\ exitCode = 0 <=> verdict = PassedVerdict

\* C20: whatever the backend answers at any step, every run eventually finishes; a
\* finished run has exactly one verdict (passed with exit code 0; provisioning failed or
\* timed out, container verification failed, or fatal error, each with exit code 1) and
\* takes no further step; and no run ever sends more than floor(240/10) = 24 status polls.
C20_EveryRunEnds ==
    /\ <>(pc = "done")
    /\ [](pc = "done" => OneVerdict)
    /\ [](pc # "done" => verdict = "none" /\ exitCode = NoExit)
    /\ [][pc # "done"]_vars
    /\ [](Fetches <= DefaultTimeoutSecs \div Interval)

\* C20 witness: the tenant reported an unknown status at all 24 polls and the run ended
\* with the provisioning verdict.
C20_Witness ==
    /\ pc = "done"
    /\ Fetches = DefaultTimeoutSecs \div Interval
    /\ Get(tenant, "status", "?") = "suspended"
    /\ verdict = ProvisioningFailedVerdict
    /\ exitCode = 1

----------------------------------------------------------------------------
(* Claims about generate_totp, under SpecTotp.                             *)

\* RFC 6238, appendix B, SHA-1 rows (the test times that fit the integers), each with the
\* last 6 digits of the published 8-digit code.
RfcVectors ==
    {[at |-> 59,         code |-> <<2, 8, 7, 0, 8, 2>>],
     [at |-> 1111111109, code |-> <<0, 8, 1, 8, 0, 4>>],
     [at |-> 1111111111, code |-> <<0, 5, 0, 4, 7, 1>>],
     [at |-> 1234567890, code |-> <<0, 0, 5, 9, 2, 4>>],
     [at |-> 2000000000, code |-> <<2, 7, 9, 0, 3, 7>>]}

\* RFC 4226, section 5.3, written out for a counter below 2^31: HMAC-SHA1 over the counter
\* as 8 big-endian bytes, the 4 bytes at the offset given by the low nibble of the last
\* digest byte, bit 31 cleared, modulo 10^6, as 6 digits with leading zeros.
HotpDigits(key, counter) ==
    LET msg == [k \in 1..8 |-> IF k <= 4 THEN 0 ELSE (counter \div 256 ^ (8 - k)) % 256]
        d == HmacSha1(key, msg)
        o == d[20] % 16
        p == (d[o + 1] % 128) * 16777216 + d[o + 2] * 65536 + d[o + 3] * 256 + d[o + 4]
        value == p % 1000000
    IN  [k \in 1..6 |-> (value \div 10 ^ (6 - k)) % 10]

\* C12: every code generate_totp returns is the RFC 4226 value for the decoded secret and
\* the counter floor(time / period); and for the RFC 6238 reference secret (in either
\* letter case) with the period of 30 seconds, at each reference time the code is the
\* published one reduced to 6 digits.
C12_MatchesRfc ==
    \A k \in 1..Len(codes) :
        /\ codes[k].code = HotpDigits(B32Decode(secret_b32), codes[k].at \div period)
        /\ (secret_b32 \in {RfcSecret, RfcSecretLower} /\ period = 30) =>
              \A v \in RfcVectors : v.at = codes[k].at => codes[k].code = v.code

\* C12 witness: the reference secret at time 1111111109 gave 081804.
C12_Witness ==
    /\ secret_b32 = RfcSecret
    /\ period = 30
    /\ Len(codes) >= 1
    /\ codes[1].at = 1111111109
    /\ codes[1].code = <<0, 8, 1, 8, 0, 4>>

\* C13: with the secret and the period fixed, two codes generated at times of the same
\* period-second window (equal floor(time / period)) are identical, whether generated at
\* the same second or at different ones; and every code has exactly 6 digits, each 0..9.
C13_SameWindowSameCode ==
    /\ \A a, b \in 1..Len(codes) :
          codes[a].at \div period = codes[b].at \div period => codes[a].code = codes[b].code
    /\ \A a \in 1..Len(codes) :
          /\ Len(codes[a].code) = 6
          /\ \A d \in 1..6 : codes[a].code[d] \in 0..9

\* C13 witness: two codes generated at different seconds of one window, equal, with a
\* leading zero.
C13_Witness ==
    /\ Len(codes) = 2
    /\ codes[1].at # codes[2].at
    /\ codes[1].at \div period = codes[2].at \div period
    /\ codes[1].code = codes[2].code
    /\ codes[1].code[1] = 0

====
